---- MODULE Spec2Model ----
(***************************************************************************)
(* Checkout stock reconciliation of the storefront: identifier             *)
(* normalisation (lib/utils/variantId.ts, normalizeMappingId), variant     *)
(* mapping resolution (findVariantMapping), stock validation and deduction *)
(* and the checkout POST handler, interleaved at database-call granularity.*)
(***************************************************************************)
EXTENDS Integers, Sequences, FiniteSets, TLC

VARIABLES
    mapQty,     \* product-variant-mappings collection: normalized id -> quantity
    mapActive,  \* product-variant-mappings collection: normalized id -> isActive
    pc,         \* per request: position in the POST handler
    cart,       \* per request: the parsed cartItems
    reqProducts, \* per request: the product documents validateAndGetProducts returned
    idx,        \* per request: cart line the deduction loop is at
    thrown,     \* per request: the error raised inside the handler (logged)
    resp,       \* per request: the HTTP response returned
    order,      \* per request: the order document created
    mail,       \* per request: outcome of sendOrderConfirmationEmail
    nin,        \* identifier normaliser harness: [bytes, shape, value]
    nout,       \* identifier normaliser harness: results
    fin,        \* resolver harness: [list, vid, mid]
    fout,       \* resolver harness: result of findVariantMapping
    hook,       \* products collection hooks: the document, req.payload, updates issued
    ledger,     \* deduct-then-restore run: cart, documents, position
    price,      \* price endpoint: the request and the response
    sitemap     \* sitemap endpoint: the collections, fetch outcomes and the response

vars == <<mapQty, mapActive, pc, cart, reqProducts, idx, thrown, resp, order, mail, nin, nout, fin, fout,
          hook, ledger, price, sitemap>>
checkoutVars == <<mapQty, mapActive, pc, cart, reqProducts, idx, thrown, resp, order, mail>>
harnessVars == <<nin, nout, fin, fout, hook, ledger, price, sitemap>>
endpointVars == <<hook, ledger, price, sitemap>>

(***************************************************************************)
(* Bounds                                                                  *)
(***************************************************************************)
MaxBytes == 2       \* length of a binary identifier
MaxList == 2        \* length of a variantMappings list given to the resolver
MaxQty == 2         \* largest initial quantity of a mapping
MaxItemQty == 2     \* largest quantity of a cart line
MaxCart == 2        \* largest number of cart lines of one request
MaxLines == 2       \* largest number of cart lines over all requests

ByteVals == {49, 171}

(***************************************************************************)
(* JavaScript values                                                       *)
(***************************************************************************)
Null == [t |-> "null"]
Undef == [t |-> "undefined"]
Num(n) == [t |-> "number", n |-> n]
Str(s) == [t |-> "string", s |-> s]
Bool(b) == [t |-> "boolean", b |-> b]
Buf(bytes) == [t |-> "buffer", bytes |-> bytes]
\* a wrapped identifier (ObjectId): toHexString() and toString() give the hex text
Oid(bytes) == [t |-> "objectid", bytes |-> bytes]
\* a plain object; f maps its own property names to values
Obj(f) == [t |-> "object", f |-> f]

IsObject(v) == v.t \in {"object", "objectid", "buffer"}
Has(v, k) == v.t = "object" /\ k \in DOMAIN v.f
Get(v, k) == IF Has(v, k) THEN v.f[k] ELSE Undef

Truthy(v) ==
    CASE v.t \in {"null", "undefined"} -> FALSE
      [] v.t = "number" -> v.n # 0
      [] v.t = "string" -> v.s # ""
      [] v.t = "boolean" -> v.b
      [] OTHER -> TRUE

HexDigits == <<"0", "1", "2", "3", "4", "5", "6", "7", "8", "9", "a", "b", "c", "d", "e", "f">>

HexByte(b) == HexDigits[((b % 256) \div 16) + 1] \o HexDigits[(b % 16) + 1]

RECURSIVE Hex(_)
Hex(bytes) == IF bytes = <<>> THEN "" ELSE HexByte(Head(bytes)) \o Hex(Tail(bytes))

RECURSIVE ToDec(_)
ToDec(n) ==
    IF n < 0 THEN "-" \o ToDec(-n)
    ELSE IF n < 10 THEN HexDigits[n + 1]
    ELSE ToDec(n \div 10) \o HexDigits[(n % 10) + 1]

\* Buffer.prototype.toString() without an encoding decodes UTF-8: an ASCII
\* digit or letter a..f is itself, a byte that starts no valid sequence is
\* U+FFFD (written "?"), any other ASCII byte is written by its escape.
Utf8Char(b) ==
    IF b >= 48 /\ b <= 57 THEN HexDigits[b - 47]
    ELSE IF b >= 97 /\ b <= 102 THEN HexDigits[b - 86]
    ELSE IF b >= 128 THEN "?"
    ELSE "\\x" \o HexByte(b)

RECURSIVE Utf8(_)
Utf8(bytes) == IF bytes = <<>> THEN "" ELSE Utf8Char(Head(bytes)) \o Utf8(Tail(bytes))

ObjectObject == "[object Object]"

\* String(v)
JSString(v) ==
    CASE v.t = "null" -> "null"
      [] v.t = "undefined" -> "undefined"
      [] v.t = "number" -> ToDec(v.n)
      [] v.t = "string" -> v.s
      [] v.t = "boolean" -> (IF v.b THEN "true" ELSE "false")
      [] v.t = "buffer" -> Utf8(v.bytes)
      [] v.t = "objectid" -> Hex(v.bytes)
      [] OTHER -> ObjectObject

normalizeVariantId(id) ==
    IF id.t \in {"null", "undefined"} THEN "" ELSE JSString(id)

compareVariantIds(id1, id2) == normalizeVariantId(id1) = normalizeVariantId(id2)

RECURSIVE normalizeProductId(_)
normalizeProductId(id) ==
    IF id.t = "buffer" THEN Hex(id.bytes)
    ELSE IF IsObject(id) /\ JSString(id) # ObjectObject THEN JSString(id)
    ELSE IF Has(id, "id") THEN normalizeProductId(id.f["id"])
    ELSE JSString(id)

(***************************************************************************)
(* normalizeMappingId: a result is [kind |-> "str", s |-> ...] or          *)
(* [kind |-> "throw"]                                                      *)
(***************************************************************************)
Ret(s) == [kind |-> "str", s |-> s]
Throw == [kind |-> "throw"]

DecKeys == <<"0", "1", "2", "3", "4", "5", "6", "7", "8", "9">>
IsNumericKey(k) == \E i \in DOMAIN DecKeys : DecKeys[i] = k
ParseInt(k) == (CHOOSE i \in DOMAIN DecKeys : DecKeys[i] = k) - 1

\* the numeric keys of o in ascending order
RECURSIVE SortedKeys(_)
SortedKeys(ks) ==
    IF ks = {} THEN <<>>
    ELSE LET m == CHOOSE k \in ks : \A j \in ks : ParseInt(k) <= ParseInt(j)
         IN <<m>> \o SortedKeys(ks \ {m})

\* numericKeys.map(parseInt).sort().map(k => o[String(k)]).filter(typeof number)
SerializedValues(o) ==
    LET keys == SortedKeys({k \in DOMAIN o.f : IsNumericKey(k)})
        vals == [i \in DOMAIN keys |-> o.f[keys[i]]]
    IN SelectSeq(vals, LAMBDA v : v.t = "number")

HasNumericKeys(o) == \E k \in DOMAIN o.f : IsNumericKey(k)

\* Buffer.from(values).toString('hex')
HexOfValues(vals) == Hex([i \in DOMAIN vals |-> vals[i].n % 256])

\* `b && typeof b === 'object' && !Buffer.isBuffer(b)` with numeric keys and
\* at least one numeric value: the serialized Buffer is reconstructed
IsSerialized(b) ==
    /\ b.t = "object"
    /\ HasNumericKeys(b)
    /\ SerializedValues(b) # <<>>

IdValueResult(idValue) ==
    LET b == Get(idValue, "buffer") IN
    IF idValue.t = "buffer" THEN Ret(Hex(idValue.bytes))
    ELSE IF Truthy(idValue) /\ IsObject(idValue) /\ Truthy(b) /\ b.t = "buffer"
        THEN Ret(Hex(b.bytes))
    ELSE IF Truthy(idValue) /\ IsObject(idValue) /\ Truthy(b) /\ IsSerialized(b)
        THEN Ret(HexOfValues(SerializedValues(b)))
    ELSE IF idValue.t = "objectid" THEN Ret(Hex(idValue.bytes))
    ELSE IF IsObject(idValue) THEN Ret(JSString(idValue))
    ELSE IF idValue.t = "string" THEN Ret(idValue.s)
    ELSE IF idValue.t = "number" THEN Ret(ToDec(idValue.n))
    ELSE Ret(JSString(idValue))

normalizeMappingId(mapping) ==
    LET b == Get(mapping, "buffer") IN
    IF ~Truthy(mapping) THEN Throw
    ELSE IF mapping.t = "buffer" THEN Ret(Hex(mapping.bytes))
    ELSE IF mapping.t = "string" THEN Ret(mapping.s)
    ELSE IF mapping.t = "number" THEN Ret(ToDec(mapping.n))
    ELSE IF ~IsObject(mapping) THEN Ret(JSString(mapping))
    ELSE IF Truthy(b) /\ b.t = "buffer" THEN Ret(Hex(b.bytes))
    ELSE IF Truthy(b) /\ IsSerialized(b) THEN Ret(HexOfValues(SerializedValues(b)))
    ELSE IF Get(mapping, "id").t # "undefined" THEN IdValueResult(Get(mapping, "id"))
    ELSE IF mapping.t = "objectid" THEN Ret(Hex(mapping.bytes))
    ELSE Ret(JSString(mapping))

(***************************************************************************)
(* findVariantMapping                                                      *)
(***************************************************************************)
Arr(items) == [t |-> "array", items |-> items]

\* mapping.variant?.id
VariantIdOf(mapping) ==
    LET variant == Get(mapping, "variant") IN
    IF variant.t \in {"null", "undefined"} THEN Undef ELSE Get(variant, "id")

\* the callback given to Array.prototype.find: "yes", "no" or "throw"
MappingMatches(mapping, itemVariantId, itemMappingId) ==
    LET normalizedVariantId == normalizeVariantId(itemVariantId)
        hasMappingId == Truthy(itemMappingId) /\ normalizeVariantId(itemMappingId) # ""
        mappingId == normalizeMappingId(mapping)
        actualId == VariantIdOf(mapping)
        normalizedActualVariantId ==
            IF actualId.t = "undefined" THEN ""
            ELSE IF actualId.t = "buffer" THEN Hex(actualId.bytes)
            ELSE normalizeVariantId(actualId)
    IN
    IF mapping.t = "number" THEN "no"
    ELSE IF mappingId.kind = "throw" THEN "throw"
    ELSE IF \/ mappingId.s = normalizedVariantId
            \/ normalizedActualVariantId = normalizedVariantId
            \/ (hasMappingId /\ mappingId.s = normalizeVariantId(itemMappingId))
            \/ compareVariantIds(actualId, itemVariantId)
            \/ compareVariantIds(Get(mapping, "id"), itemVariantId)
            \/ (Truthy(itemMappingId) /\ compareVariantIds(Get(mapping, "id"), itemMappingId))
        THEN "yes"
    ELSE "no"

NotFound == [kind |-> "notfound"]
Found(i) == [kind |-> "found", i |-> i]
Raised == [kind |-> "throw"]

\* Array.prototype.find: the first element on which the callback is truthy
RECURSIVE FindFrom(_, _, _, _)
FindFrom(items, i, itemVariantId, itemMappingId) ==
    IF i > Len(items) THEN NotFound
    ELSE LET m == MappingMatches(items[i], itemVariantId, itemMappingId) IN
         IF m = "throw" THEN Raised
         ELSE IF m = "yes" THEN Found(i)
         ELSE FindFrom(items, i + 1, itemVariantId, itemMappingId)

findVariantMapping(variantMappings, itemVariantId, itemMappingId) ==
    IF variantMappings.t # "array" THEN NotFound
    ELSE FindFrom(variantMappings.items, 1, itemVariantId, itemMappingId)

(***************************************************************************)
(* Catalog: one published product (id 1) with two populated variant        *)
(* mappings, and an unpublished product (id 2)                             *)
(***************************************************************************)
Reqs == {"r1", "r2"}

\* the static fields of the product-variant-mappings documents of product 1
Mappings == <<
    [id |-> 10, variant |-> 20, isDefault |-> TRUE],
    [id |-> 11, variant |-> 21, isDefault |-> FALSE] >>

DbMappingIds == {ToDec(Mappings[i].id) : i \in DOMAIN Mappings}

\* the id of the default mapping, which is active
DefaultId == ToDec(Mappings[CHOOSE i \in DOMAIN Mappings : Mappings[i].isDefault].id)

MappingDoc(m, q, a) ==
    Obj([id |-> Num(m.id),
         variant |-> Obj([id |-> Num(m.variant)]),
         quantity |-> Num(q[ToDec(m.id)]),
         isActive |-> Bool(a[ToDec(m.id)]),
         isDefault |-> Bool(m.isDefault)])

RECURSIVE SumQty(_, _)
SumQty(q, ids) ==
    IF ids = {} THEN 0
    ELSE LET m == CHOOSE x \in ids : TRUE IN q[m] + SumQty(q, ids \ {m})

\* totalStock as the products afterRead hook recomputes it on every read
calculateTotalStock(q) == SumQty(q, DbMappingIds)

ProductDoc(q, a) ==
    Obj([id |-> Num(1),
         totalStock |-> Num(calculateTotalStock(q)),
         variantMappings |-> Arr([i \in DOMAIN Mappings |-> MappingDoc(Mappings[i], q, a)])])

PublishedProducts(q, a) == <<ProductDoc(q, a)>>

\* payloadClient.find({collection: "products", where: id in productIds and published})
FindProducts(items, q, a) ==
    SelectSeq(PublishedProducts(q, a),
              LAMBDA p : \E i \in DOMAIN items : items[i].id = Get(p, "id"))

(***************************************************************************)
(* Cart items                                                              *)
(***************************************************************************)
ItemQtys == {-1} \cup (1..MaxItemQty)
ItemVariants == {Undef, Obj([id |-> Str("20")]), Obj([id |-> Str("21")])}

Items ==
    {[id |-> Num(1), quantity |-> n, variant |-> v] : n \in ItemQtys, v \in ItemVariants}
    \cup {[id |-> Num(2), quantity |-> 1, variant |-> Undef]}

Carts == UNION {[1..n -> Items] : n \in 1..MaxCart}

\* products.find((p) => normalizeProductId(p.id) === normalizeProductId(item.id))
ProductIndex(products, item) ==
    LET hits == {i \in DOMAIN products :
                    normalizeProductId(Get(products[i], "id")) = normalizeProductId(item.id)}
    IN IF hits = {} THEN 0 ELSE CHOOSE i \in hits : \A j \in hits : i <= j

\* no cart id is reported missing
MissingProductIdsNone(items, products) == <<>>

MissingProductIds(items, products) ==
    SelectSeq([i \in DOMAIN items |-> normalizeProductId(items[i].id)],
              LAMBDA id : \A j \in DOMAIN products :
                             normalizeProductId(Get(products[j], "id")) # id)

\* product.variantMappings || []
MappingsOrEmpty(product) ==
    IF Truthy(Get(product, "variantMappings")) THEN Get(product, "variantMappings")
    ELSE Arr(<<>>)

\* item.variant.id, (item.variant as any).mappingId
ResolveItem(list, item) ==
    findVariantMapping(list, Get(item.variant, "id"), Get(item.variant, "mappingId"))

\* a comparison of a document field with a number is false unless the field is a number
NumLE(v, n) == v.t = "number" /\ v.n <= n
NumLT(v, n) == v.t = "number" /\ v.n < n

\* product.totalStock || 0
TotalStockOrZero(product) ==
    IF Truthy(Get(product, "totalStock")) THEN Get(product, "totalStock") ELSE Num(0)

VariantShortNoRequested(variantMapping, item) ==
    NumLE(Get(variantMapping, "quantity"), 0)

VariantShort(variantMapping, item) ==
    \/ NumLE(Get(variantMapping, "quantity"), 0)
    \/ NumLT(Get(variantMapping, "quantity"), item.quantity)

ProductShort(product, item) ==
    \/ NumLE(TotalStockOrZero(product), 0)
    \/ NumLT(TotalStockOrZero(product), item.quantity)

\* the outcome of one pass of the stock loop: "ok", "issue", "skip" or "throw"
StockCheck(products, item) ==
    LET pi == ProductIndex(products, item) IN
    IF pi = 0 THEN "skip"
    ELSE LET product == products[pi] IN
         IF Truthy(item.variant)
         THEN LET r == ResolveItem(MappingsOrEmpty(product), item) IN
              IF r.kind = "throw" THEN "throw"
              ELSE IF r.kind = "notfound" THEN "issue"
              ELSE LET variantMapping == MappingsOrEmpty(product).items[r.i] IN
                   IF ~Truthy(variantMapping) \/ variantMapping.t = "number" THEN "issue"
                   ELSE IF VariantShort(variantMapping, item) THEN "issue"
                   ELSE "ok"
         ELSE IF ProductShort(product, item) THEN "issue" ELSE "ok"

StockIssues(items, products) ==
    SelectSeq([i \in DOMAIN items |-> i],
              LAMBDA i : StockCheck(products, items[i]) = "issue")

StockLoopThrows(items, products) ==
    \E i \in DOMAIN items : StockCheck(products, items[i]) = "throw"

NoError == [kind |-> "none", lines |-> <<>>]

\* validateAndGetProducts after its find: the error it throws, or NoError
validateAndGetProducts(items, products) ==
    IF MissingProductIds(items, products) # <<>>
        THEN [kind |-> "missing", lines |-> <<>>]
    ELSE IF StockLoopThrows(items, products)
        THEN [kind |-> "normalize", lines |-> <<>>]
    ELSE IF StockIssues(items, products) # <<>>
        THEN [kind |-> "stock", lines |-> StockIssues(items, products)]
    ELSE NoError

(***************************************************************************)
(* deductStockFromOrder: the database call of one pass of its loop         *)
(***************************************************************************)
Max(a, b) == IF a >= b THEN a ELSE b

\* Math.max(0, mapping.quantity - item.quantity)
DeductNoClamp(quantity, requested) == quantity - requested
Deduct(quantity, requested) == Max(0, quantity - requested)

\* product.variantMappings?.find((mapping) => mapping.isDefault)
RECURSIVE DefaultFrom(_, _)
DefaultFrom(items, i) ==
    IF i > Len(items) THEN NotFound
    ELSE IF items[i].t \in {"null", "undefined"} THEN Raised
    ELSE IF Truthy(Get(items[i], "isDefault")) THEN Found(i)
    ELSE DefaultFrom(items, i + 1)

\* the first mapping of the list, flagged or not
DefaultMappingFirst(list) ==
    IF list.t = "array" /\ Len(list.items) > 0 THEN Found(1) ELSE NotFound
DefaultMapping(list) ==
    IF list.t # "array" THEN NotFound ELSE DefaultFrom(list.items, 1)

\* the mapping one cart line adjusts
TargetOf(product, item) ==
    IF Truthy(item.variant)
    THEN ResolveItem(Get(product, "variantMappings"), item)
    ELSE DefaultMapping(Get(product, "variantMappings"))

Skip == [kind |-> "skip"]
Update(id, quantity) == [kind |-> "update", id |-> id, quantity |-> quantity]

\* "skip", "throw", or the update {id, data: {quantity}} the pass issues
DeductCall(products, item) ==
    LET pi == ProductIndex(products, item) IN
    IF pi = 0 THEN Skip
    ELSE LET product == products[pi]
             r == TargetOf(product, item)
         IN
         IF r.kind = "throw" THEN Raised
         ELSE IF r.kind = "notfound" THEN Skip
         ELSE LET mapping == Get(product, "variantMappings").items[r.i]
                  id == normalizeMappingId(mapping)
              IN
              IF ~Truthy(mapping) \/ mapping.t = "number" THEN Skip
              ELSE IF id.kind = "throw" THEN Raised
              ELSE Update(id.s, Deduct(Get(mapping, "quantity").n, item.quantity))

(***************************************************************************)
(* Responses of the POST handler                                           *)
(***************************************************************************)
NoResponse == [status |-> 0, error |-> "", lines |-> <<>>]
BadRequest(msg) == [status |-> 400, error |-> msg, lines |-> <<>>]
Redirect == [status |-> 302, error |-> "", lines |-> <<>>]
\* the outer catch: the error is logged, the body is fixed
ServerError(err) == [status |-> 500, error |-> "Failed to process checkout", lines |-> <<>>]
\* the catch around deductStockFromOrder: the body is the error's message
DeductRedirect(err) == [status |-> 302, error |-> "", lines |-> <<>>]
DeductError(err) == [status |-> 500, error |-> err.kind, lines |-> err.lines]
\* the catch around sendOrderConfirmationEmail: logged, the handler goes on
EmailFailedError == [status |-> 500, error |-> "Failed to process checkout", lines |-> <<>>]
EmailFailedResponse == Redirect

DbError == [kind |-> "database", lines |-> <<>>]
NormalizeError == [kind |-> "Failed to extract mapping ID", lines |-> <<>>]

NoOrder == [status |-> "none", cartItems |-> <<>>]

FormErrors == {"Missing required fields", "Invalid email address", "Invalid cart data"}

TotalLines == LET RECURSIVE Sum(_)
                  Sum(rs) == IF rs = {} THEN 0
                             ELSE LET r == CHOOSE x \in rs : TRUE
                                  IN Len(cart[r]) + Sum(rs \ {r})
              IN Sum(Reqs)

endpointsIdle ==
    /\ hook = [op |-> "none"]
    /\ ledger = [pc |-> "none"]
    /\ price = [pc |-> "none"]
    /\ sitemap = [pc |-> "none"]

harnessIdle ==
    /\ nin = [bytes |-> <<>>, shape |-> "none", value |-> Undef]
    /\ nout = [p |-> "", m |-> [kind |-> "none"], pdone |-> FALSE, mdone |-> FALSE]
    /\ fin = [list |-> Undef, vid |-> Undef, mid |-> Undef]
    /\ fout = [kind |-> "none"]
    /\ endpointsIdle

checkoutIdle ==
    /\ mapQty = [m \in DbMappingIds |-> 0]
    /\ mapActive = [m \in DbMappingIds |-> TRUE]
    /\ pc = [r \in Reqs |-> "received"]
    /\ cart = [r \in Reqs |-> <<>>]
    /\ reqProducts = [r \in Reqs |-> <<>>]
    /\ idx = [r \in Reqs |-> 0]
    /\ thrown = [r \in Reqs |-> NoError]
    /\ resp = [r \in Reqs |-> NoResponse]
    /\ order = [r \in Reqs |-> NoOrder]
    /\ mail = [r \in Reqs |-> "none"]

Init ==
    /\ mapQty \in [DbMappingIds -> 0..MaxQty]
    /\ mapActive \in {a \in [DbMappingIds -> BOOLEAN] : a[DefaultId]}
    /\ pc = [r \in Reqs |-> "received"]
    /\ cart = [r \in Reqs |-> <<>>]
    /\ reqProducts = [r \in Reqs |-> <<>>]
    /\ idx = [r \in Reqs |-> 0]
    /\ thrown = [r \in Reqs |-> NoError]
    /\ resp = [r \in Reqs |-> NoResponse]
    /\ order = [r \in Reqs |-> NoOrder]
    /\ mail = [r \in Reqs |-> "none"]
    /\ harnessIdle

\* the request ends with response rsp after error err was raised
Fail(r, err, rsp) ==
    /\ thrown' = [thrown EXCEPT ![r] = err]
    /\ resp' = [resp EXCEPT ![r] = rsp]
    /\ pc' = [pc EXCEPT ![r] = "done"]

\* POST: a required field is missing, the email is malformed or the cart is
\* not a non-empty array
RejectForm(r) ==
    /\ pc[r] = "received"
    /\ \E msg \in FormErrors :
          /\ resp' = [resp EXCEPT ![r] = BadRequest(msg)]
          /\ pc' = [pc EXCEPT ![r] = "done"]
    /\ UNCHANGED <<mapQty, cart, reqProducts, idx, thrown, order, mail>>
    /\ UNCHANGED mapActive
    /\ UNCHANGED harnessVars

\* POST: the form is valid and cartItems parses to a non-empty array
AcceptForm(r) ==
    /\ pc[r] = "received"
    /\ \E c \in Carts :
          /\ TotalLines + Len(c) <= MaxLines
          /\ cart' = [cart EXCEPT ![r] = c]
    /\ pc' = [pc EXCEPT ![r] = "fetch"]
    /\ UNCHANGED <<mapQty, reqProducts, idx, thrown, resp, order, mail>>
    /\ UNCHANGED mapActive
    /\ UNCHANGED harnessVars

\* validateAndGetProducts: the find of the published products, then the
\* missing-product and stock checks on what it returned
FetchAndValidate(r) ==
    /\ pc[r] = "fetch"
    /\ \E docs \in {FindProducts(cart[r], mapQty, mapActive)} :
       \E err \in {validateAndGetProducts(cart[r], docs)} :
          IF err # NoError
          THEN /\ Fail(r, err, ServerError(err))
               /\ UNCHANGED <<reqProducts, idx>>
          ELSE /\ reqProducts' = [reqProducts EXCEPT ![r] = docs]
               /\ idx' = [idx EXCEPT ![r] = 1]
               /\ pc' = [pc EXCEPT ![r] = "deduct"]
               /\ UNCHANGED <<thrown, resp>>
    /\ UNCHANGED <<mapQty, cart, order, mail>>
    /\ UNCHANGED mapActive
    /\ UNCHANGED harnessVars

\* validateAndGetProducts: the find rejects
FetchFails(r) ==
    /\ pc[r] = "fetch"
    /\ Fail(r, DbError, ServerError(DbError))
    /\ UNCHANGED <<mapQty, cart, reqProducts, idx, order, mail>>
    /\ UNCHANGED mapActive
    /\ UNCHANGED harnessVars

\* the loop ends after its first pass
AdvanceEarly(r) ==
    /\ idx' = [idx EXCEPT ![r] = idx[r] + 1]
    /\ pc' = [pc EXCEPT ![r] = "create"]

\* the loop of deductStockFromOrder moves to the next cart line, or ends
Advance(r) ==
    /\ idx' = [idx EXCEPT ![r] = idx[r] + 1]
    /\ pc' = [pc EXCEPT ![r] = IF idx[r] = Len(cart[r]) THEN "create" ELSE "deduct"]

\* deductStockFromOrder: one pass of the loop, its update resolving
DeductStep(r) ==
    /\ pc[r] = "deduct"
    /\ \E call \in {DeductCall(reqProducts[r], cart[r][idx[r]])} :
       CASE call.kind = "skip" ->
                /\ Advance(r)
                /\ UNCHANGED <<mapQty, thrown, resp>>
         [] call.kind = "throw" ->
                /\ Fail(r, NormalizeError, DeductError(NormalizeError))
                /\ UNCHANGED <<mapQty, idx>>
         [] call.kind = "update" /\ call.id \in DOMAIN mapQty ->
                /\ mapQty' = [mapQty EXCEPT ![call.id] = call.quantity]
                /\ Advance(r)
                /\ UNCHANGED <<thrown, resp>>
         [] OTHER ->
                /\ Fail(r, DbError, DeductError(DbError))
                /\ UNCHANGED <<mapQty, idx>>
    /\ UNCHANGED <<cart, reqProducts, order, mail>>
    /\ UNCHANGED mapActive
    /\ UNCHANGED harnessVars

\* deductStockFromOrder: the update of one pass rejects
DeductFails(r) ==
    /\ pc[r] = "deduct"
    /\ DeductCall(reqProducts[r], cart[r][idx[r]]).kind = "update"
    /\ Fail(r, DbError, DeductError(DbError))
    /\ UNCHANGED <<mapQty, cart, reqProducts, idx, order, mail>>
    /\ UNCHANGED mapActive
    /\ UNCHANGED harnessVars

\* formattedCartItems, one entry per cart line
FormattedCartItems(r) ==
    [i \in DOMAIN cart[r] |->
        [product |-> cart[r][i].id, quantity |-> cart[r][i].quantity]]

\* payloadClient.create({collection: "orders", ...}) resolves
CreateOrder(r) ==
    /\ pc[r] = "create"
    /\ order' = [order EXCEPT ![r] =
                    [status |-> "pending", cartItems |-> FormattedCartItems(r)]]
    /\ pc' = [pc EXCEPT ![r] = "notify"]
    /\ UNCHANGED <<mapQty, cart, reqProducts, idx, thrown, resp, mail>>
    /\ UNCHANGED mapActive
    /\ UNCHANGED harnessVars

\* payloadClient.create rejects
CreateFails(r) ==
    /\ pc[r] = "create"
    /\ Fail(r, DbError, ServerError(DbError))
    /\ UNCHANGED <<mapQty, cart, reqProducts, idx, order, mail>>
    /\ UNCHANGED mapActive
    /\ UNCHANGED harnessVars

\* sendOrderConfirmationEmail resolves, then the redirect
NotifySent(r) ==
    /\ pc[r] = "notify"
    /\ mail' = [mail EXCEPT ![r] = "sent"]
    /\ resp' = [resp EXCEPT ![r] = Redirect]
    /\ pc' = [pc EXCEPT ![r] = "done"]
    /\ UNCHANGED <<mapQty, cart, reqProducts, idx, thrown, order>>
    /\ UNCHANGED mapActive
    /\ UNCHANGED harnessVars

\* sendOrderConfirmationEmail rejects: logged, then the redirect
NotifyFailed(r) ==
    /\ pc[r] = "notify"
    /\ mail' = [mail EXCEPT ![r] = "failed"]
    /\ resp' = [resp EXCEPT ![r] = EmailFailedResponse]
    /\ pc' = [pc EXCEPT ![r] = "done"]
    /\ UNCHANGED <<mapQty, cart, reqProducts, idx, thrown, order>>
    /\ UNCHANGED mapActive
    /\ UNCHANGED harnessVars

Next ==
    \E r \in Reqs :
        \/ RejectForm(r)
        \/ AcceptForm(r)
        \/ FetchAndValidate(r)
        \/ FetchFails(r)
        \/ DeductStep(r)
        \/ DeductFails(r)
        \/ CreateOrder(r)
        \/ CreateFails(r)
        \/ NotifySent(r)
        \/ NotifyFailed(r)

Spec == Init /\ [][Next]_vars

(***************************************************************************)
(* Identifier normalisers applied to every representation of an identifier *)
(***************************************************************************)
ByteSeqs == UNION {[1..n -> ByteVals] : n \in 1..MaxBytes}

\* a Buffer as JSON serialises it: { '0': byte, '1': byte, ... }
IndexKeyed(bytes) ==
    Obj([k \in {DecKeys[i] : i \in DOMAIN bytes} |-> Num(bytes[ParseInt(k) + 1])])

IdShapes == {"string", "buffer", "wrapped", "nestedId", "nestedBuffer", "serialized",
             "nestedSerialized"}

Represent(shape, bytes) ==
    CASE shape = "string" -> Str(Hex(bytes))
      [] shape = "buffer" -> Buf(bytes)
      [] shape = "wrapped" -> Oid(bytes)
      [] shape = "nestedId" -> Obj([id |-> Str(Hex(bytes))])
      [] shape = "nestedBuffer" -> Obj([id |-> Buf(bytes)])
      [] shape = "serialized" -> Obj([buffer |-> IndexKeyed(bytes)])
      [] shape = "nestedSerialized" -> Obj([id |-> Obj([buffer |-> IndexKeyed(bytes)])])

\* values that stand for no identifier
OddValues == {Null, Undef, Num(0), Str(""), Obj(<<>>), Bool(FALSE), Obj([id |-> Null])}

NormInputs ==
    {[bytes |-> b, shape |-> sh, value |-> Represent(sh, b)] : b \in ByteSeqs, sh \in IdShapes}
    \cup {[bytes |-> <<>>, shape |-> "odd", value |-> v] : v \in OddValues}

InitNorm ==
    /\ checkoutIdle
    /\ nin \in NormInputs
    /\ nout = [p |-> "", m |-> [kind |-> "none"], pdone |-> FALSE, mdone |-> FALSE]
    /\ fin = [list |-> Undef, vid |-> Undef, mid |-> Undef]
    /\ fout = [kind |-> "none"]
    /\ endpointsIdle

NormalizeProduct ==
    /\ nin.shape # "none"
    /\ ~nout.pdone
    /\ nout' = [nout EXCEPT !.p = normalizeProductId(nin.value), !.pdone = TRUE]
    /\ UNCHANGED <<nin, fin, fout>>
    /\ UNCHANGED endpointVars
    /\ UNCHANGED checkoutVars

NormalizeMapping ==
    /\ nin.shape # "none"
    /\ ~nout.mdone
    /\ nout' = [nout EXCEPT !.m = normalizeMappingId(nin.value), !.mdone = TRUE]
    /\ UNCHANGED <<nin, fin, fout>>
    /\ UNCHANGED endpointVars
    /\ UNCHANGED checkoutVars

NextNorm == NormalizeProduct \/ NormalizeMapping

SpecNorm == InitNorm /\ [][NextNorm]_vars

(***************************************************************************)
(* findVariantMapping applied to lists of populated mappings, bare         *)
(* references and empty entries                                            *)
(***************************************************************************)
Populated(id, variantId) == Obj([id |-> id, variant |-> Obj([id |-> variantId])])

ListEntries ==
    { Populated(Num(1), Num(2)),
      Populated(Num(2), Num(3)),
      Populated(Str("3"), Str("1")),
      Populated(Buf(<<49>>), Oid(<<171>>)),
      Obj([id |-> Num(4), variant |-> Num(2)]),
      Num(1), Num(0), Str("2"), Str(""), Null, Obj(<<>>) }

RequestedIds == {Num(1), Num(2), Str("2"), Str("3"), Str("31"), Str("ab"), Str(""), Undef}
RequestedMappingIds == {Undef, Num(2), Str("1")}

\* a list names a mapping at most once
Distinct(l) == \A i, j \in DOMAIN l : i # j => l[i] # l[j]

Lists ==
    {Undef} \cup
    {Arr(l) : l \in {x \in UNION {[1..n -> ListEntries] : n \in 0..MaxList} : Distinct(x)}}

InitFind ==
    /\ checkoutIdle
    /\ nin = [bytes |-> <<>>, shape |-> "none", value |-> Undef]
    /\ nout = [p |-> "", m |-> [kind |-> "none"], pdone |-> FALSE, mdone |-> FALSE]
    /\ fin \in [list : Lists, vid : RequestedIds, mid : RequestedMappingIds]
    /\ fout = [kind |-> "none"]
    /\ endpointsIdle

Resolve ==
    /\ fout.kind = "none"
    /\ fout' = findVariantMapping(fin.list, fin.vid, fin.mid)
    /\ UNCHANGED <<nin, nout, fin>>
    /\ UNCHANGED endpointVars
    /\ UNCHANGED checkoutVars

NextFind == Resolve

SpecFind == InitFind /\ [][NextFind]_vars

(***************************************************************************)
(* Hooks of the products collection: afterRead and afterChange             *)
(***************************************************************************)
MaxUpdates == 3     \* products updates one write may chain

\* variantMappings.map((mapping) => typeof mapping === 'object' ? mapping.id : mapping)
MappingIdsOf(variantMappings) ==
    {JSString(IF IsObject(variantMappings.items[i])
              THEN Get(variantMappings.items[i], "id")
              ELSE variantMappings.items[i]) : i \in DOMAIN variantMappings.items}

\* the product has mapping references
HasMappings(variantMappings) ==
    Truthy(variantMappings) /\ Len(variantMappings.items) > 0

\* rejects: the find of the mapping documents throws; the catch returns 0
calculateTotalStockFromMappings(variantMappings, q, rejects) ==
    IF ~HasMappings(variantMappings) THEN 0
    ELSE IF rejects THEN 0
    ELSE SumQty(q, MappingIdsOf(variantMappings) \cap DOMAIN q)

\* doc.totalStock ?? 0
StoredOrZero(totalStock) ==
    IF totalStock.t \in {"null", "undefined"} THEN Num(0) ELSE totalStock

\* the totalStock afterRead leaves on the document
afterRead(doc, payloadOk, q, rejects) ==
    IF Truthy(doc.variantMappings) /\ payloadOk
    THEN Num(calculateTotalStockFromMappings(doc.variantMappings, q, rejects))
    ELSE IF ~Truthy(doc.variantMappings) THEN Num(0)
    ELSE StoredOrZero(doc.totalStock)

HookMappings ==
    {Undef, Arr(<<>>), Arr(<<Num(10)>>), Arr(<<Num(10), Num(11)>>),
     Arr(<<Obj([id |-> Num(10)]), Num(11)>>)}

HookDocs ==
    {[totalStock |-> t, variantMappings |-> v] :
        t \in {Undef} \cup {Num(n) : n \in 0..MaxQty}, v \in HookMappings}

requestsIdle ==
    /\ mapActive = [m \in DbMappingIds |-> TRUE]
    /\ pc = [r \in Reqs |-> "received"]
    /\ cart = [r \in Reqs |-> <<>>]
    /\ reqProducts = [r \in Reqs |-> <<>>]
    /\ idx = [r \in Reqs |-> 0]
    /\ thrown = [r \in Reqs |-> NoError]
    /\ resp = [r \in Reqs |-> NoResponse]
    /\ order = [r \in Reqs |-> NoOrder]
    /\ mail = [r \in Reqs |-> "none"]

InitHook ==
    /\ mapQty \in [DbMappingIds -> 0..MaxQty]
    /\ requestsIdle
    /\ nin = [bytes |-> <<>>, shape |-> "none", value |-> Undef]
    /\ nout = [p |-> "", m |-> [kind |-> "none"], pdone |-> FALSE, mdone |-> FALSE]
    /\ fin = [list |-> Undef, vid |-> Undef, mid |-> Undef]
    /\ fout = [kind |-> "none"]
    /\ \E op \in {"read", "write"}, d \in HookDocs, ok \in BOOLEAN :
          /\ op = "write" => ok
          /\ hook = [op |-> op, doc |-> d, stored |-> d.totalStock, payload |-> ok,
                     rejected |-> FALSE, pc |-> "pending", updates |-> 0]
    /\ ledger = [pc |-> "none"]
    /\ price = [pc |-> "none"]
    /\ sitemap = [pc |-> "none"]

\* afterRead of one product document
AfterRead ==
    /\ hook.op = "read"
    /\ hook.pc = "pending"
    /\ \E rejects \in BOOLEAN :
          hook' = [hook EXCEPT
                      !.doc.totalStock = afterRead(hook.doc, hook.payload, mapQty, rejects),
                      !.rejected = rejects /\ hook.payload /\ HasMappings(hook.doc.variantMappings),
                      !.pc = "done"]
    /\ UNCHANGED <<nin, nout, fin, fout, ledger, price, sitemap>>
    /\ UNCHANGED checkoutVars

\* afterChange of one product document; the update it issues runs it again
AfterChange ==
    /\ hook.op = "write"
    /\ hook.pc = "pending"
    /\ \E rejects \in BOOLEAN :
       \E totalStock \in {Num(calculateTotalStockFromMappings(hook.doc.variantMappings,
                                                              mapQty, rejects))} :
          IF Truthy(hook.doc.variantMappings) /\ hook.doc.totalStock # totalStock
          THEN /\ hook.updates < MaxUpdates
               /\ hook' = [hook EXCEPT
                              !.doc.totalStock = totalStock,
                              !.rejected = rejects /\ HasMappings(hook.doc.variantMappings),
                              !.updates = hook.updates + 1]
          ELSE hook' = [hook EXCEPT !.pc = "done"]
    /\ UNCHANGED <<nin, nout, fin, fout, ledger, price, sitemap>>
    /\ UNCHANGED checkoutVars

NextHook == AfterRead \/ AfterChange

SpecHook == InitHook /\ [][NextHook]_vars

(***************************************************************************)
(* deductStockFromOrder followed by restoreStockFromOrder for one cart     *)
(***************************************************************************)
\* variantMapping.quantity + item.quantity
Restore(quantity, requested) == quantity + requested

\* "skip", "throw", or the update {id, data: {quantity}} one pass of the
\* loop of restoreStockFromOrder issues
RestoreCall(products, item) ==
    LET pi == ProductIndex(products, item) IN
    IF pi = 0 THEN Skip
    ELSE IF ~Truthy(item.variant) THEN Skip
    ELSE LET product == products[pi]
             r == ResolveItem(Get(product, "variantMappings"), item)
         IN
         IF r.kind = "throw" THEN Raised
         ELSE IF r.kind = "notfound" THEN Skip
         ELSE LET mapping == Get(product, "variantMappings").items[r.i]
                  id == normalizeMappingId(mapping)
              IN
              IF ~Truthy(mapping) \/ mapping.t = "number" THEN Skip
              ELSE IF id.kind = "throw" THEN Raised
              ELSE Update(id.s, Restore(Get(mapping, "quantity").n, item.quantity))

\* the product document when none of its mappings is flagged isDefault
UnflagDefault(product) ==
    LET list == Get(product, "variantMappings").items IN
    Obj([product.f EXCEPT !.variantMappings =
            Arr([k \in DOMAIN list |-> Obj([list[k].f EXCEPT !.isDefault = Bool(FALSE)])])])

\* the documents the ledger reads: the published products of the cart, with
\* or without a default mapping
LedgerProducts(items, q, a, flagged) ==
    LET docs == FindProducts(items, q, a) IN
    IF flagged THEN docs ELSE [k \in DOMAIN docs |-> UnflagDefault(docs[k])]

\* carts of lines with a positive quantity
LedgerCarts == {c \in Carts : \A i \in DOMAIN c : c[i].quantity > 0}

InitLedger ==
    /\ mapQty \in [DbMappingIds -> 0..MaxQty]
    /\ requestsIdle
    /\ nin = [bytes |-> <<>>, shape |-> "none", value |-> Undef]
    /\ nout = [p |-> "", m |-> [kind |-> "none"], pdone |-> FALSE, mdone |-> FALSE]
    /\ fin = [list |-> Undef, vid |-> Undef, mid |-> Undef]
    /\ fout = [kind |-> "none"]
    /\ hook = [op |-> "none"]
    /\ \E c \in LedgerCarts, refetch \in BOOLEAN, flagged \in BOOLEAN :
       \E docs \in {LedgerProducts(c, mapQty, mapActive, flagged)} :
          /\ validateAndGetProducts(c, docs) = NoError
          /\ ledger = [pc |-> "deduct", cart |-> c, products |-> docs, i |-> 1,
                       before |-> mapQty, refetch |-> refetch, flagged |-> flagged]
    /\ price = [pc |-> "none"]
    /\ sitemap = [pc |-> "none"]

\* the quantities after the call of one pass was issued
Applied(q, call) ==
    IF call.kind = "update" /\ call.id \in DOMAIN q
    THEN [q EXCEPT ![call.id] = call.quantity]
    ELSE q

\* one pass of the loop of deductStockFromOrder; after the last pass
\* restoreStockFromOrder is given the same documents or freshly read ones
LedgerDeduct ==
    /\ ledger.pc = "deduct"
    /\ \E call \in {DeductCall(ledger.products, ledger.cart[ledger.i])} :
          /\ call.kind # "throw"
          /\ mapQty' = Applied(mapQty, call)
          /\ ledger' =
                IF ledger.i < Len(ledger.cart)
                THEN [ledger EXCEPT !.i = ledger.i + 1]
                ELSE [ledger EXCEPT
                         !.i = 1,
                         !.pc = "restore",
                         !.products = IF ledger.refetch
                                      THEN LedgerProducts(ledger.cart, mapQty', mapActive,
                                                          ledger.flagged)
                                      ELSE ledger.products]
    /\ UNCHANGED <<mapActive, pc, cart, reqProducts, idx, thrown, resp, order, mail>>
    /\ UNCHANGED <<nin, nout, fin, fout, hook, price, sitemap>>

\* one pass of the loop of restoreStockFromOrder
LedgerRestore ==
    /\ ledger.pc = "restore"
    /\ \E call \in {RestoreCall(ledger.products, ledger.cart[ledger.i])} :
          /\ call.kind # "throw"
          /\ mapQty' = Applied(mapQty, call)
          /\ ledger' =
                IF ledger.i < Len(ledger.cart)
                THEN [ledger EXCEPT !.i = ledger.i + 1]
                ELSE [ledger EXCEPT !.pc = "done"]
    /\ UNCHANGED <<mapActive, pc, cart, reqProducts, idx, thrown, resp, order, mail>>
    /\ UNCHANGED <<nin, nout, fin, fout, hook, price, sitemap>>

NextLedger == LedgerDeduct \/ LedgerRestore

SpecLedger == InitLedger /\ [][NextLedger]_vars

(***************************************************************************)
(* Price endpoint: POST { productId, variantId? }                          *)
(***************************************************************************)
\* a price field: unset, zero, positive or negative
PriceVals == {Undef, Num(0), Num(5), Num(-1)}

\* isValidPrice of utils/pricing: a finite, non-negative number
isValidPrice(p) == p.t = "number" /\ p.n >= 0

\* getProductPrice of utils/pricing: the valid discountedPrice, else originalPrice
getProductPrice(product) ==
    IF isValidPrice(Get(product, "discountedPrice"))
    THEN Get(product, "discountedPrice")
    ELSE Get(product, "originalPrice")

\* a || b
Or(a, b) == IF Truthy(a) THEN a ELSE b

\* the normalizeMappingId local to the price endpoint
priceNormalizeMappingId(mapping) ==
    IF mapping.t = "buffer" THEN Hex(mapping.bytes)
    ELSE IF IsObject(mapping) /\ Get(mapping, "id").t # "undefined"
        THEN IF Get(mapping, "id").t = "buffer" THEN Hex(Get(mapping, "id").bytes)
             ELSE JSString(Get(mapping, "id"))
    ELSE JSString(mapping)

\* the callback given to product.variantMappings?.find
PriceMappingMatches(mapping, variantId) ==
    LET normalizedVariantId == normalizeVariantId(variantId)
        actualId == VariantIdOf(mapping)
        normalizedActualVariantId ==
            IF actualId.t = "undefined" THEN ""
            ELSE IF actualId.t = "buffer" THEN Hex(actualId.bytes)
            ELSE normalizeVariantId(actualId)
    IN \/ normalizeVariantId(Str(priceNormalizeMappingId(mapping))) = normalizedVariantId
       \/ normalizedActualVariantId = normalizedVariantId
       \/ compareVariantIds(actualId, variantId)
       \/ compareVariantIds(Get(mapping, "id"), variantId)

RECURSIVE PriceFindFrom(_, _, _)
PriceFindFrom(items, i, variantId) ==
    IF i > Len(items) THEN NotFound
    ELSE IF PriceMappingMatches(items[i], variantId) THEN Found(i)
    ELSE PriceFindFrom(items, i + 1, variantId)

\* the mapping documents at depth 2: the first mapping carries the price
\* fields of the request's catalog, the others no override and price 5
PricedMapping(doc, i, cat) ==
    Obj([id |-> Get(doc, "id"),
         variant |-> Obj([id |-> Get(Get(doc, "variant"), "id"),
                          price |-> IF i = 1 THEN cat.variantPrice ELSE Num(5)]),
         quantity |-> Get(doc, "quantity"),
         isActive |-> Get(doc, "isActive"),
         isDefault |-> Get(doc, "isDefault"),
         priceOverride |-> IF i = 1 THEN cat.priceOverride ELSE Undef])

PricedProduct(q, a, cat) ==
    LET doc == ProductDoc(q, a) IN
    Obj([id |-> Get(doc, "id"),
         published |-> Bool(TRUE),
         totalStock |-> Get(doc, "totalStock"),
         originalPrice |-> cat.originalPrice,
         discountedPrice |-> cat.discountedPrice,
         variantMappings |->
            Arr([i \in DOMAIN Get(doc, "variantMappings").items |->
                    PricedMapping(Get(doc, "variantMappings").items[i], i, cat)])])

\* find({collection: "products", where: id equals productId and published, limit: 1})
FindProduct(productId, q, a, cat) ==
    SelectSeq(<<PricedProduct(q, a, cat)>>,
              LAMBDA p : JSString(Get(p, "id")) = JSString(productId))

PriceResponse(status, ok, p) == [status |-> status, ok |-> ok, price |-> p]

\* Number(variantMapping.priceOverride || variant?.price || 0)
VariantPriceOf(variantMapping) ==
    Or(Or(Get(variantMapping, "priceOverride"),
          Get(Get(variantMapping, "variant"), "price")),
       Num(0))

\* the response of the handler when no call fails
PricePost(productId, variantId, q, a, cat) ==
    IF ~Truthy(productId) THEN PriceResponse(400, FALSE, Undef)
    ELSE LET docs == FindProduct(productId, q, a, cat) IN
    IF docs = <<>> THEN PriceResponse(404, FALSE, Undef)
    ELSE LET product == docs[1] IN
    IF Truthy(variantId)
    THEN LET r == PriceFindFrom(Get(product, "variantMappings").items, 1, variantId) IN
         IF r.kind = "notfound" THEN PriceResponse(400, FALSE, Undef)
         ELSE LET variantMapping == Get(product, "variantMappings").items[r.i] IN
              IF ~(Truthy(Get(variantMapping, "isActive"))
                   /\ Get(variantMapping, "quantity").n > 0)
                  THEN PriceResponse(409, FALSE, Undef)
              ELSE IF ~isValidPrice(VariantPriceOf(variantMapping))
                  THEN PriceResponse(400, FALSE, Undef)
              ELSE PriceResponse(200, TRUE, VariantPriceOf(variantMapping))
    ELSE IF ~(Truthy(Get(product, "published"))
              /\ Or(Get(product, "totalStock"), Num(0)).n > 0)
            THEN PriceResponse(409, FALSE, Undef)
         ELSE IF ~isValidPrice(getProductPrice(product))
            THEN PriceResponse(400, FALSE, Undef)
         ELSE PriceResponse(200, TRUE, getProductPrice(product))

PriceCatalogs ==
    [priceOverride : PriceVals, variantPrice : PriceVals,
     originalPrice : {Num(5), Num(-1)}, discountedPrice : {Undef, Num(3)}]

PriceProductIds == {Undef, Num(1), Num(2), Num(3)}
PriceVariantIds == {Undef, Str("20"), Num(21), Str("10"), Str("99")}

InitPrice ==
    /\ mapQty \in [DbMappingIds -> 0..MaxQty]
    /\ mapActive \in {a \in [DbMappingIds -> BOOLEAN] : a[DefaultId]}
    /\ pc = [r \in Reqs |-> "received"]
    /\ cart = [r \in Reqs |-> <<>>]
    /\ reqProducts = [r \in Reqs |-> <<>>]
    /\ idx = [r \in Reqs |-> 0]
    /\ thrown = [r \in Reqs |-> NoError]
    /\ resp = [r \in Reqs |-> NoResponse]
    /\ order = [r \in Reqs |-> NoOrder]
    /\ mail = [r \in Reqs |-> "none"]
    /\ nin = [bytes |-> <<>>, shape |-> "none", value |-> Undef]
    /\ nout = [p |-> "", m |-> [kind |-> "none"], pdone |-> FALSE, mdone |-> FALSE]
    /\ fin = [list |-> Undef, vid |-> Undef, mid |-> Undef]
    /\ fout = [kind |-> "none"]
    /\ hook = [op |-> "none"]
    /\ ledger = [pc |-> "none"]
    /\ \E p \in PriceProductIds, v \in PriceVariantIds, cat \in PriceCatalogs :
          price = [pc |-> "received", productId |-> p, variantId |-> v, cat |-> cat,
                   failed |-> FALSE, resp |-> PriceResponse(0, FALSE, Undef)]
    /\ sitemap = [pc |-> "none"]

\* the handler runs to its response
PriceAnswer ==
    /\ price.pc = "received"
    /\ price' = [price EXCEPT
                    !.pc = "done",
                    !.resp = PricePost(price.productId, price.variantId,
                                       mapQty, mapActive, price.cat)]
    /\ UNCHANGED <<nin, nout, fin, fout, hook, ledger, sitemap>>
    /\ UNCHANGED checkoutVars

\* payload() or the find of the product rejects: the outer catch
PriceFails ==
    /\ price.pc = "received"
    /\ Truthy(price.productId)
    /\ price' = [price EXCEPT
                    !.pc = "done",
                    !.failed = TRUE,
                    !.resp = PriceResponse(500, FALSE, Undef)]
    /\ UNCHANGED <<nin, nout, fin, fout, hook, ledger, sitemap>>
    /\ UNCHANGED checkoutVars

NextPrice == PriceAnswer \/ PriceFails

SpecPrice == InitPrice /\ [][NextPrice]_vars

(***************************************************************************)
(* Sitemap endpoint: GET /sitemap.xml                                      *)
(***************************************************************************)
MaxDocs == 2        \* published products, and blog posts, in the store

DEFAULT_SITE == "https://examplesite.com/"

staticRoutes == <<
    [path |-> "", changefreq |-> "daily", priority |-> "1.0"],
    [path |-> "about", changefreq |-> "monthly", priority |-> "0.6"],
    [path |-> "contact", changefreq |-> "monthly", priority |-> "0.6"],
    [path |-> "products", changefreq |-> "weekly", priority |-> "0.8"],
    [path |-> "blog", changefreq |-> "weekly", priority |-> "0.7"],
    [path |-> "checkout", changefreq |-> "weekly", priority |-> "0.5"] >>

\* formatUrl on the default site: with trailing_slash every URL ends in "/",
\* without it none does
formatUrl(path, trailingSlash) ==
    IF trailingSlash
    THEN (IF path = "" THEN DEFAULT_SITE ELSE DEFAULT_SITE \o path \o "/")
    ELSE (IF path = "" THEN "https://examplesite.com" ELSE DEFAULT_SITE \o path)

\* xmlEscape on the slugs of the store: "&" is the only character of them it
\* replaces, and the rest of a URL holds none
xmlEscape(slug) ==
    IF slug = "b&c" THEN "b&amp;c" ELSE slug

\* buildUrlEntry without lastmod
buildUrlEntry(loc, changefreq, priority) ==
    [loc |-> loc, changefreq |-> changefreq, priority |-> priority]

\* typeof doc.slug === "string" && doc.slug
HasSlug(doc) == doc.slug.t = "string" /\ doc.slug.s # ""

Entries(kind, items) == [kind |-> kind, items |-> items]

\* the entries of the documents that carry a slug, in order
SlugEntries(docs, prefix, priority, trailingSlash) ==
    LET kept == SelectSeq(docs, HasSlug) IN
    [i \in DOMAIN kept |->
        buildUrlEntry(formatUrl(prefix \o xmlEscape(kept[i].slug.s), trailingSlash),
                      "weekly", priority)]

\* getAllProducts of lib/payload/products: the published products, or a rejection
getAllProducts(products, rejects) ==
    IF rejects THEN Entries("throw", <<>>) ELSE Entries("entries", products)

\* without the catch
buildProductEntriesRethrow(products, rejects, trailingSlash) ==
    IF getAllProducts(products, rejects).kind = "throw" THEN Entries("throw", <<>>)
    ELSE Entries("entries",
                 SlugEntries(getAllProducts(products, rejects).items, "products/", "0.9",
                             trailingSlash))

\* the catch returns []
buildProductEntries(products, rejects, trailingSlash) ==
    IF getAllProducts(products, rejects).kind = "throw" THEN Entries("entries", <<>>)
    ELSE Entries("entries",
                 SlugEntries(getAllProducts(products, rejects).items, "products/", "0.9",
                             trailingSlash))

\* outcome: "ok", payload() rejects ("payload") or the find rejects ("find");
\* the find's rejection becomes [] in getAllBlogs
getAllBlogs(blogs, outcome) ==
    IF outcome = "payload" THEN Entries("throw", <<>>)
    ELSE IF outcome = "find" THEN Entries("entries", <<>>)
    ELSE Entries("entries", blogs)

buildBlogEntries(blogs, outcome, trailingSlash) ==
    IF getAllBlogs(blogs, outcome).kind = "throw" THEN Entries("entries", <<>>)
    ELSE Entries("entries",
                 SlugEntries(getAllBlogs(blogs, outcome).items, "blog/", "0.7", trailingSlash))

staticEntries(trailingSlash) ==
    [i \in DOMAIN staticRoutes |->
        buildUrlEntry(formatUrl(staticRoutes[i].path, trailingSlash),
                      staticRoutes[i].changefreq, staticRoutes[i].priority)]

\* the response of GET: the urlset, or no document when a builder throws
SitemapGet(products, blogs, rejects, outcome, trailingSlash) ==
    LET productEntries == buildProductEntries(products, rejects, trailingSlash)
        blogEntries == buildBlogEntries(blogs, outcome, trailingSlash)
    IN IF productEntries.kind = "throw" \/ blogEntries.kind = "throw"
       THEN [status |-> 500, urlset |-> <<>>]
       ELSE [status |-> 200,
             urlset |-> staticEntries(trailingSlash) \o productEntries.items
                        \o blogEntries.items]

Slugs == {Str("a"), Str("b&c"), Str(""), Undef}
SitemapDocs == UNION {[1..n -> [slug : Slugs]] : n \in 0..MaxDocs}

InitSitemap ==
    /\ checkoutIdle
    /\ nin = [bytes |-> <<>>, shape |-> "none", value |-> Undef]
    /\ nout = [p |-> "", m |-> [kind |-> "none"], pdone |-> FALSE, mdone |-> FALSE]
    /\ fin = [list |-> Undef, vid |-> Undef, mid |-> Undef]
    /\ fout = [kind |-> "none"]
    /\ hook = [op |-> "none"]
    /\ ledger = [pc |-> "none"]
    /\ price = [pc |-> "none"]
    /\ \E ps \in SitemapDocs, bs \in SitemapDocs, ts \in BOOLEAN :
          sitemap = [pc |-> "received", products |-> ps, blogs |-> bs, trailingSlash |-> ts,
                     rejects |-> FALSE, outcome |-> "ok",
                     resp |-> [status |-> 0, urlset |-> <<>>]]

\* GET with both fetches resolving
SitemapAnswer ==
    /\ sitemap.pc = "received"
    /\ sitemap' = [sitemap EXCEPT
                      !.pc = "done",
                      !.resp = SitemapGet(sitemap.products, sitemap.blogs, FALSE, "ok",
                                          sitemap.trailingSlash)]
    /\ UNCHANGED <<nin, nout, fin, fout, hook, ledger, price>>
    /\ UNCHANGED checkoutVars

\* GET with the fetch of the products, of the blog posts, or both, rejecting
SitemapDegraded ==
    /\ sitemap.pc = "received"
    /\ \E rejects \in BOOLEAN, outcome \in {"ok", "payload", "find"} :
          /\ rejects \/ outcome # "ok"
          /\ sitemap' = [sitemap EXCEPT
                            !.pc = "done",
                            !.rejects = rejects,
                            !.outcome = outcome,
                            !.resp = SitemapGet(sitemap.products, sitemap.blogs, rejects,
                                                outcome, sitemap.trailingSlash)]
    /\ UNCHANGED <<nin, nout, fin, fout, hook, ledger, price>>
    /\ UNCHANGED checkoutVars

NextSitemap == SitemapAnswer \/ SitemapDegraded

SpecSitemap == InitSitemap /\ [][NextSitemap]_vars

(***************************************************************************)
(* The order the POST handler builds from a validated cart                 *)
(***************************************************************************)
\* getVariantPrice of utils/pricing: the valid priceOverride, else the
\* variant's price when set, else 0
getVariantPrice(variantMapping, variant) ==
    IF isValidPrice(Get(variantMapping, "priceOverride"))
    THEN Get(variantMapping, "priceOverride")
    ELSE IF Get(variant, "price").t = "number" THEN Get(variant, "price")
    ELSE Num(0)

\* typeof variantMapping.variant === "object" ? variantMapping.variant : null
VariantOf(variantMapping) ==
    IF Get(variantMapping, "variant").t = "object" THEN Get(variantMapping, "variant")
    ELSE Null

\* the mapping a line with a variant is priced from, Null when there is none
PricingMapping(product, item) ==
    IF ~Truthy(item.variant) THEN Null
    ELSE LET r == ResolveItem(MappingsOrEmpty(product), item) IN
         IF r.kind # "found" THEN Null
         ELSE LET variantMapping == MappingsOrEmpty(product).items[r.i] IN
              IF Truthy(variantMapping) /\ variantMapping.t # "number"
              THEN variantMapping ELSE Null

\* the product's price, or the price of the mapping the line resolved to
PriceOfMapping(product, variantMapping) ==
    IF variantMapping = Null THEN getProductPrice(product)
    ELSE getVariantPrice(variantMapping, VariantOf(variantMapping))

\* the price of the line as the request states it
priceFromRequest(product, item) ==
    IF Get(item.variant, "price").t = "number" THEN Get(item.variant, "price")
    ELSE getProductPrice(product)

\* let priceAtPurchase = getProductPrice(product); for a line with a variant
\* that resolves, priceAtPurchase = getVariantPrice(variantMapping, variant)
priceAtPurchase(product, item) ==
    PriceOfMapping(product, PricingMapping(product, item))

\* variant?.id && variant?.name ? {id, name, sku} : null
VariantInfoOf(variant) ==
    IF Truthy(Get(variant, "id")) /\ Truthy(Get(variant, "name"))
    THEN Obj([id |-> Str(JSString(Get(variant, "id"))),
              name |-> Str(JSString(Get(variant, "name"))),
              sku |-> Or(Get(variant, "sku"), Undef)])
    ELSE Null

\* {id, name, sku} of the variant of the mapping the line resolved to
variantInfo(product, item) ==
    VariantInfoOf(VariantOf(PricingMapping(product, item)))

formattedCartItems(cartItems, products) ==
    [i \in DOMAIN cartItems |->
        LET item == cartItems[i]
            product == products[ProductIndex(products, item)]
        IN [product |-> Get(product, "id"),
            quantity |-> item.quantity,
            priceAtPurchase |-> priceAtPurchase(product, item),
            variant |-> variantInfo(product, item)]]

\* formattedCartItems.reduce((sum, item) => sum + item.priceAtPurchase * item.quantity, 0)
RECURSIVE orderTotal(_)
orderTotal(lines) ==
    IF lines = <<>> THEN 0
    ELSE orderTotal(SubSeq(lines, 1, Len(lines) - 1))
         + lines[Len(lines)].priceAtPurchase.n * lines[Len(lines)].quantity

\* the catalogs of the priced checkout
OrderCatalogs ==
    {cat \in [priceOverride : PriceVals, variantPrice : {Undef, Num(5)},
              originalPrice : {Num(5)}, discountedPrice : {Undef, Num(3)}] :
        (cat.variantPrice = Undef) <=> (cat.discountedPrice = Undef)}

\* the product at depth 2; the variant of the second mapping has a name and a sku
OrderProduct(q, a, cat) ==
    LET doc == PricedProduct(q, a, cat)
        list == Get(doc, "variantMappings").items
        named(k) == IF k = 2
                    THEN Obj([list[k].f EXCEPT !.variant =
                                 Obj(@.f @@ [name |-> Str("large"), sku |-> Str("L")])])
                    ELSE list[k]
    IN Obj([doc.f EXCEPT !.variantMappings = Arr([k \in DOMAIN list |-> named(k)])])

\* payloadClient.find of the cart's published products
OrderProducts(items, q, a, cat) ==
    SelectSeq(<<OrderProduct(q, a, cat)>>,
              LAMBDA p : \E i \in DOMAIN items : items[i].id = Get(p, "id"))

\* the variant fields a client adds to a cart line
ClientFields ==
    { [price |-> Num(0), name |-> Str("x"), stock |-> Num(99), sku |-> Str("s")],
      [price |-> Num(9), name |-> Str("y"), stock |-> Num(1), sku |-> Str("t")] }

\* the cart whose variant lines carry the client's fields
WithClientFields(items, fields) ==
    [i \in DOMAIN items |->
        IF Truthy(items[i].variant)
        THEN [items[i] EXCEPT !.variant = Obj(@.f @@ fields)]
        ELSE items[i]]

\* two requests with validated carts read the same catalog and stand before
\* the creation of the order
InitOrder ==
    /\ mapQty = [m \in DbMappingIds |-> MaxQty]
    /\ mapActive = [m \in DbMappingIds |-> TRUE]
    /\ \E c \in Carts, cat \in OrderCatalogs :
       \E docs \in {OrderProducts(c, mapQty, mapActive, cat)} :
          /\ validateAndGetProducts(c, docs) = NoError
          /\ cart \in [Reqs -> {c} \cup {WithClientFields(c, f) : f \in ClientFields}]
          /\ reqProducts = [r \in Reqs |-> docs]
          /\ idx = [r \in Reqs |-> Len(c) + 1]
    /\ pc = [r \in Reqs |-> "create"]
    /\ thrown = [r \in Reqs |-> NoError]
    /\ resp = [r \in Reqs |-> NoResponse]
    /\ order = [r \in Reqs |-> NoOrder]
    /\ mail = [r \in Reqs |-> "none"]
    /\ harnessIdle

\* formattedCartItems, orderTotal and payloadClient.create({collection: "orders"})
CreatePricedOrder(r) ==
    /\ pc[r] = "create"
    /\ \E lines \in {formattedCartItems(cart[r], reqProducts[r])} :
          order' = [order EXCEPT ![r] =
                       [status |-> "pending", cartItems |-> lines,
                        totalAmount |-> orderTotal(lines)]]
    /\ pc' = [pc EXCEPT ![r] = "notify"]
    /\ UNCHANGED <<mapQty, cart, reqProducts, idx, thrown, resp, mail>>
    /\ UNCHANGED mapActive
    /\ UNCHANGED harnessVars

NextOrder ==
    \E r \in Reqs :
        \/ CreatePricedOrder(r)
        \/ CreateFails(r)

SpecOrder == InitOrder /\ [][NextOrder]_vars

(***************************************************************************)
(* Properties of the checkout                                              *)
(***************************************************************************)
Persisted(r) == order[r].status = "pending"
PassedGate(r) == reqProducts[r] # <<>>
Lines(r) == DOMAIN cart[r]

\* the product document a cart line of r was validated against
LineProduct(r, i) == reqProducts[r][ProductIndex(reqProducts[r], cart[r][i])]

\* the populated mapping a variant line of r resolved to, when it did
LineResolves(r, i) ==
    ResolveItem(MappingsOrEmpty(LineProduct(r, i)), cart[r][i]).kind = "found"
LineMapping(r, i) ==
    MappingsOrEmpty(LineProduct(r, i)).items[
        ResolveItem(MappingsOrEmpty(LineProduct(r, i)), cart[r][i]).i]

\* the quantity of mapping m in the documents r read
ReadQty(r, m) ==
    LET all == {e \in {reqProducts[r][p].f.variantMappings.items[k] :
                          p \in DOMAIN reqProducts[r], k \in DOMAIN Mappings} :
                   normalizeMappingId(e) = Ret(m)}
    IN (CHOOSE e \in all : TRUE).f.quantity.n

\* the mapping id line i of r adjusts, "" when it adjusts none
LineTarget(r, i) ==
    LET call == DeductCall(reqProducts[r], cart[r][i])
    IN IF call.kind = "update" THEN call.id ELSE ""

RECURSIVE SumOver(_, _, _)
SumOver(r, m, ls) ==
    IF ls = {} THEN 0
    ELSE LET i == CHOOSE x \in ls : TRUE
         IN (IF LineTarget(r, i) = m THEN cart[r][i].quantity ELSE 0)
            + SumOver(r, m, ls \ {i})

\* the total quantity the cart of r orders against mapping m
OrderedAgainst(r, m) == SumOver(r, m, Lines(r))

LineAvailable(r, i) ==
    IF Truthy(cart[r][i].variant)
    THEN /\ LineResolves(r, i)
         /\ Get(LineMapping(r, i), "isActive") = Bool(TRUE)
         /\ Get(LineMapping(r, i), "quantity").n > 0
         /\ Get(LineMapping(r, i), "quantity").n >= cart[r][i].quantity
    ELSE /\ Get(LineProduct(r, i), "totalStock").n > 0
         /\ Get(LineProduct(r, i), "totalStock").n >= cart[r][i].quantity

\* C1: an order is persisted only if every cart line was available in the
\* documents the request validated: a variant line resolves to a mapping that
\* is active and has quantity > 0 and >= the requested quantity, a product
\* line has totalStock > 0 and >= the requested quantity.
C1_GateRequiresAvailable ==
    \A r \in Reqs : Persisted(r) => \A i \in Lines(r) : LineAvailable(r, i)

\* C2: every request that passed the stock gate passed it on the quantities
\* it read itself: each variant line resolved to a mapping whose quantity, as
\* read by that request, is positive and covers the requested quantity; the
\* gate is not evaluated against what other requests wrote since.
C2_GateOnOwnRead ==
    \A r \in Reqs : PassedGate(r) =>
        \A i \in Lines(r) : Truthy(cart[r][i].variant) =>
            /\ LineResolves(r, i)
            /\ Get(LineMapping(r, i), "quantity").n > 0
            /\ Get(LineMapping(r, i), "quantity").n >= cart[r][i].quantity

\* both requests read the same quantity of mapping 10, each ordered no more
\* than it, both persisted an order, and together they ordered more than it
C2_Oversell ==
    /\ \A r \in Reqs :
          /\ Persisted(r)
          /\ Len(cart[r]) = 1
          /\ Truthy(cart[r][1].variant)
          /\ LineTarget(r, 1) = "10"
          /\ cart[r][1].quantity > 0
          /\ cart[r][1].quantity <= ReadQty(r, "10")
    /\ ReadQty("r1", "10") = ReadQty("r2", "10")
    /\ cart["r1"][1].quantity + cart["r2"][1].quantity > ReadQty("r1", "10")

\* C3: after a checkout that succeeded while no other request ran, every
\* mapping holds the quantity it had before minus the total quantity the
\* cart ordered against it.
C3_SequentialDeduction ==
    \A r \in Reqs :
        (/\ resp[r].status = 302
         /\ \A o \in Reqs \ {r} : pc[o] = "received")
        => \A m \in DbMappingIds : mapQty[m] = ReadQty(r, m) - OrderedAgainst(r, m)

\* a mapping's quantity changes only to max(0, quantity read - requested)
\* for the cart line some request is deducting
WritesAreClamped ==
    \A m \in DbMappingIds : mapQty'[m] # mapQty[m] =>
        \E r \in Reqs :
            /\ pc[r] = "deduct"
            /\ LineTarget(r, idx[r]) = m
            /\ mapQty'[m] = Max(0, ReadQty(r, m) - cart[r][idx[r]].quantity)

\* C4: every quantity a deduction writes is max(0, mapping.quantity -
\* requested quantity), and no mapping ever holds a negative quantity.
C4_NeverNegative ==
    /\ [](\A m \in DbMappingIds : mapQty[m] >= 0)
    /\ [][WritesAreClamped]_vars

\* a product line, validated on the total stock of two active mappings,
\* ordered more than the default mapping held and the write was clamped to zero
C4_Clamped ==
    \E r \in Reqs :
        /\ pc[r] = "create"
        /\ Len(cart[r]) = 1
        /\ LineTarget(r, 1) = "10"
        /\ Truthy(cart[r][1].variant) = FALSE
        /\ \A m \in DbMappingIds : mapActive[m]
        /\ cart[r][1].quantity > ReadQty(r, "10")
        /\ mapQty["10"] = 0

\* C5: when a request fails in the deduction loop or at order creation, the
\* failing step leaves every mapping quantity as written so far, creates no
\* order, and answers 500.
C5_NoRollback ==
    [][\A r \in Reqs :
          (pc[r] \in {"deduct", "create"} /\ pc'[r] = "done") =>
              /\ mapQty' = mapQty
              /\ order'[r] = NoOrder
              /\ resp'[r].status = 500]_vars

\* the update of the second line failed after the first line was deducted
C5_PartialFailure ==
    \E r \in Reqs :
        /\ pc[r] = "done"
        /\ thrown[r] = DbError
        /\ resp[r].status = 500
        /\ order[r] = NoOrder
        /\ Len(cart[r]) = 2
        /\ idx[r] = 2
        /\ LineTarget(r, 1) = "10"
        /\ cart[r][1].quantity > 0
        /\ mapQty["10"] = ReadQty(r, "10") - cart[r][1].quantity

\* C6: once the confirmation email was attempted, sent or failed, the order
\* is persisted and the response is the 302 redirect; a persisted order is
\* never changed or removed.
C6_NotifyNeverAffects ==
    /\ [](\A r \in Reqs : mail[r] # "none" => (Persisted(r) /\ resp[r] = Redirect))
    /\ [][\A r \in Reqs : Persisted(r) => order'[r] = order[r]]_vars

\* the email failed, the order stands and the client was redirected
C6_EmailFailed ==
    \E r \in Reqs : mail[r] = "failed" /\ Persisted(r) /\ resp[r].status = 302

\* C7: when validateAndGetProducts rejects a cart with two or more
\* undersupplied lines, the response carries the aggregated message that
\* lists every one of them.
C7_ResponseListsEveryLine ==
    \A r \in Reqs :
        (thrown[r].kind = "stock" /\ Len(thrown[r].lines) >= 2)
        => resp[r].lines = thrown[r].lines

(***************************************************************************)
(* Properties of the resolver and the normalisers                          *)
(***************************************************************************)
Resolved == fout.kind # "none"
ListItems == IF fin.list.t = "array" THEN fin.list.items ELSE <<>>

\* the target variant's id of a list entry, normalised
TargetId(entry) ==
    IF VariantIdOf(entry).t = "buffer" THEN Hex(VariantIdOf(entry).bytes)
    ELSE normalizeVariantId(VariantIdOf(entry))

\* the entry's own id, or its target variant's id, equals the requested
\* variant id, or its own id equals the supplied mapping id
ClaimMatch(entry, vid, mid) ==
    /\ entry.t # "number"
    /\ normalizeMappingId(entry).kind = "str"
    /\ \/ normalizeMappingId(entry).s = normalizeVariantId(vid)
       \/ (VariantIdOf(entry).t # "undefined" /\ TargetId(entry) = normalizeVariantId(vid))
       \/ (Truthy(mid) /\ normalizeMappingId(entry).s = normalizeVariantId(mid))

Matches(j) == ClaimMatch(ListItems[j], fin.vid, fin.mid)

\* the own id of a list entry, normalised
OwnId(j) == normalizeMappingId(ListItems[j])

\* C8: the entry findVariantMapping returns is the unique mapping of the list
\* that satisfies the match predicate: no mapping with another id that
\* satisfies it exists earlier or later in the list.
C8_NoOtherMatch ==
    fout.kind = "found" =>
        \A j \in DOMAIN ListItems : OwnId(j) # OwnId(fout.i) => ~Matches(j)

\* C9: for every representation of one identifier both normalisers return
\* the canonical string, the lowercase hex text of its bytes.
C9_SameCanonical ==
    nin.shape \in IdShapes =>
        /\ nout.pdone => nout.p = Hex(nin.bytes)
        /\ nout.mdone => nout.m = Ret(Hex(nin.bytes))

\* C10: normalizeMappingId returns a string for every entry of the list, and
\* the resolution ends in a mapping or not-found, never in an exception.
C10_NeverRaises ==
    Resolved =>
        /\ fout.kind \in {"found", "notfound"}
        /\ \A j \in DOMAIN ListItems : normalizeMappingId(ListItems[j]).kind = "str"

(***************************************************************************)
(* Properties of the hooks of the products collection                      *)
(***************************************************************************)
\* C11: after the read hook, a product with mapping references whose
\* recomputation failed (the mapping query threw) or could not run
\* (req.payload unavailable) carries the totalStock that was stored before.
C11_ReadFallback ==
    (hook.op = "read" /\ hook.pc = "done") =>
        ((HasMappings(hook.doc.variantMappings) /\ (hook.rejected \/ ~hook.payload))
            => hook.doc.totalStock = StoredOrZero(hook.stored))

\* C12: with mapping quantities unchanged, one product write issues at most
\* one follow-up totalStock update.
C12_AtMostOneUpdate ==
    hook.op = "write" => hook.updates <= 1

(***************************************************************************)
(* Properties of deduction followed by restoration                         *)
(***************************************************************************)
\* C13: after deductStockFromOrder and then restoreStockFromOrder ran for the
\* same sufficiently stocked cart, every mapping holds the quantity it had
\* before the deduction.
C13_RestoreInverts ==
    ledger.pc = "done" => mapQty = ledger.before

(***************************************************************************)
(* Properties of the price endpoint                                        *)
(***************************************************************************)
PriceDone == price.pc = "done"
PriceProductKnown == FindProduct(price.productId, mapQty, mapActive, price.cat) # <<>>
PriceMappings == PricedProduct(mapQty, mapActive, price.cat).f.variantMappings.items
PriceResolved == PriceFindFrom(PriceMappings, 1, price.variantId)
PriceMapping == PriceMappings[PriceResolved.i]
PriceSet(v) == v.t \notin {"null", "undefined"}

\* C14: the status of the response follows the taxonomy: 400 for a missing
\* productId, 404 for an unknown or unpublished product, 404 for a variant
\* id that matches no mapping, 409 for an inactive or out-of-stock variant or
\* a product without stock, 500 for an unexpected failure, and 200 with ok
\* true otherwise when the price is valid.
C14_Taxonomy ==
    PriceDone =>
        LET status == price.resp.status IN
        IF price.failed THEN status = 500
        ELSE IF ~Truthy(price.productId) THEN status = 400
        ELSE IF ~PriceProductKnown THEN status = 404
        ELSE IF Truthy(price.variantId)
        THEN IF PriceResolved.kind = "notfound" THEN status = 404
             ELSE IF \/ Get(PriceMapping, "isActive") # Bool(TRUE)
                     \/ Get(PriceMapping, "quantity").n <= 0
                 THEN status = 409
             ELSE isValidPrice(VariantPriceOf(PriceMapping))
                    => (status = 200 /\ price.resp.ok)
        ELSE IF calculateTotalStock(mapQty) <= 0 THEN status = 409
        ELSE isValidPrice(getProductPrice(PricedProduct(mapQty, mapActive, price.cat)))
                => (status = 200 /\ price.resp.ok)

\* the variant price as specified: the override when set, else the variant's
\* price when set, else 0
SpecifiedVariantPrice(mapping) ==
    IF PriceSet(Get(mapping, "priceOverride")) THEN Get(mapping, "priceOverride")
    ELSE IF PriceSet(Get(Get(mapping, "variant"), "price"))
        THEN Get(Get(mapping, "variant"), "price")
    ELSE Num(0)

\* C15: for an available variant the response carries the specified variant
\* price when that price is valid (0 included), and the request is rejected
\* when it is invalid.
C15_VariantPrice ==
    (/\ PriceDone
     /\ ~price.failed
     /\ PriceProductKnown
     /\ Truthy(price.variantId)
     /\ PriceResolved.kind = "found"
     /\ price.resp.status # 409)
    => IF isValidPrice(SpecifiedVariantPrice(PriceMapping))
       THEN price.resp.status = 200 /\ price.resp.price = SpecifiedVariantPrice(PriceMapping)
       ELSE price.resp.status # 200

(***************************************************************************)
(* Properties of the sitemap                                               *)
(***************************************************************************)
SitemapDone == sitemap.pc = "done"
Slugged(docs) == SelectSeq(docs, HasSlug)
Urlset == sitemap.resp.urlset
StaticCount == Len(staticRoutes)

\* the entries of the urlset after the static ones whose URL lies under prefix
UnderPrefix(prefix, docs) ==
    {i \in (StaticCount + 1)..Len(Urlset) :
        \E d \in DOMAIN docs :
            /\ HasSlug(docs[d])
            /\ Urlset[i].loc = formatUrl(prefix \o xmlEscape(docs[d].slug.s),
                                         sitemap.trailingSlash)}

\* C16: the response is always a urlset that starts with every static route;
\* it holds nothing else when there are no products and no blog posts; a
\* category whose fetch failed contributes no entry, and a category whose
\* fetch succeeded contributes one entry for each of its documents that
\* carries a slug.
C16_Degrades ==
    SitemapDone =>
        /\ sitemap.resp.status = 200
        /\ Len(Urlset) >= StaticCount
        /\ \A i \in 1..StaticCount :
              /\ Urlset[i].loc = formatUrl(staticRoutes[i].path, sitemap.trailingSlash)
              /\ Urlset[i].changefreq = staticRoutes[i].changefreq
              /\ Urlset[i].priority = staticRoutes[i].priority
        /\ (sitemap.products = <<>> /\ sitemap.blogs = <<>>) => Len(Urlset) = StaticCount
        /\ Len(Urlset) = StaticCount
              + (IF sitemap.rejects THEN 0 ELSE Len(Slugged(sitemap.products)))
              + (IF sitemap.outcome # "ok" THEN 0 ELSE Len(Slugged(sitemap.blogs)))
        /\ sitemap.rejects => UnderPrefix("products/", sitemap.products) = {}
        /\ sitemap.outcome # "ok" => UnderPrefix("blog/", sitemap.blogs) = {}
        /\ ~sitemap.rejects =>
              \A d \in DOMAIN sitemap.products : HasSlug(sitemap.products[d]) =>
                  \E i \in UnderPrefix("products/", sitemap.products) :
                      /\ Urlset[i].loc = formatUrl("products/" \o xmlEscape(sitemap.products[d].slug.s),
                                                   sitemap.trailingSlash)
                      /\ Urlset[i].priority = "0.9"
        /\ sitemap.outcome = "ok" =>
              \A d \in DOMAIN sitemap.blogs : HasSlug(sitemap.blogs[d]) =>
                  \E i \in UnderPrefix("blog/", sitemap.blogs) :
                      /\ Urlset[i].loc = formatUrl("blog/" \o xmlEscape(sitemap.blogs[d].slug.s),
                                                   sitemap.trailingSlash)
                      /\ Urlset[i].priority = "0.7"

\* the fetch of the products failed and the blog posts are all listed
C16_ProductsFailed ==
    /\ SitemapDone
    /\ sitemap.rejects
    /\ sitemap.outcome = "ok"
    /\ Len(Slugged(sitemap.products)) >= 1
    /\ Len(Slugged(sitemap.blogs)) >= 1
    /\ sitemap.resp.status = 200
    /\ Len(Urlset) = StaticCount + Len(Slugged(sitemap.blogs))

(***************************************************************************)
(* Order of the steps of a checkout and frame of a rejected checkout       *)
(***************************************************************************)
\* the positions a request may move to from each position of the handler
StageEdges ==
    {<<"received", "fetch">>, <<"received", "done">>,
     <<"fetch", "deduct">>, <<"fetch", "done">>,
     <<"deduct", "deduct">>, <<"deduct", "create">>, <<"deduct", "done">>,
     <<"create", "notify">>, <<"create", "done">>,
     <<"notify", "done">>}

\* one step of the checkout seen from request r
OrderedStep(r) ==
    /\ pc'[r] # pc[r] => <<pc[r], pc'[r]>> \in StageEdges
    /\ (\E m \in DbMappingIds : mapQty'[m] # mapQty[m]) =>
          \E o \in Reqs : pc[o] = "deduct" /\ PassedGate(o) /\ thrown[o] = NoError
    /\ order'[r] # order[r] =>
          /\ pc[r] = "create"
          /\ idx[r] = Len(cart[r]) + 1
          /\ mail[r] = "none"
    /\ mail'[r] # mail[r] => (pc[r] = "notify" /\ Persisted(r) /\ order'[r] = order[r])
    /\ resp'[r] # resp[r] => (resp[r] = NoResponse /\ pc'[r] = "done")
    /\ pc[r] = "done" => (pc'[r] = "done" /\ resp'[r] = resp[r])

RejectedAtGate(r) == pc[r] = "done" /\ idx[r] = 0

\* C18: a step that rejects a request at a validation gate changes no mapping
\* quantity, no order and no notification; a request rejected at a gate has
\* an error response, no order and no notification; a request whose cart
\* names a product absent from the published set never passes the gate.
C18_RejectedFrame ==
    /\ [][\A r \in Reqs :
            (pc[r] \in {"received", "fetch"} /\ pc'[r] = "done") =>
                (mapQty' = mapQty /\ order' = order /\ mail' = mail)]_vars
    /\ [](\A r \in Reqs :
            /\ RejectedAtGate(r) =>
                  /\ resp[r].status \in {400, 500}
                  /\ order[r] = NoOrder
                  /\ mail[r] = "none"
            /\ (\E i \in Lines(r) : cart[r][i].id = Num(2)) =>
                  /\ idx[r] = 0
                  /\ order[r] = NoOrder
                  /\ mail[r] = "none")

\* one request was rejected for a stock shortfall and another for an absent
\* product, and nothing was written
C18_BothRejected ==
    /\ \E r \in Reqs : RejectedAtGate(r) /\ thrown[r].kind = "stock"
    /\ \E r \in Reqs : RejectedAtGate(r) /\ thrown[r].kind = "missing"
    /\ \A r \in Reqs : order[r] = NoOrder /\ mail[r] = "none"

\* an unpopulated entry of a variantMappings list: the bare id of a mapping
IsBareReference(entry) == entry.t \in {"number", "string"}

\* C19: findVariantMapping never returns a bare reference, numeric or
\* string: the entry it returns is a populated mapping record.
C19_BareNeverReturned ==
    fout.kind = "found" => ~IsBareReference(ListItems[fout.i])

(***************************************************************************)
(* Target of one pass of the deduction loop                                *)
(***************************************************************************)
LedgerItem == ledger.cart[ledger.i]
LedgerProduct == ledger.products[ProductIndex(ledger.products, LedgerItem)]
LedgerList == MappingsOrEmpty(LedgerProduct).items

\* the positions of the mappings flagged isDefault
Flagged == {k \in DOMAIN LedgerList : Get(LedgerList[k], "isDefault") = Bool(TRUE)}

\* the position of the mapping the pass has to adjust, 0 for none: the one
\* stock validation resolved for a line with a variant, the flagged one for
\* a line without
ExpectedTarget ==
    IF Truthy(LedgerItem.variant)
    THEN LET r == ResolveItem(MappingsOrEmpty(LedgerProduct), LedgerItem) IN
         IF r.kind = "found" THEN r.i ELSE 0
    ELSE IF Flagged = {} THEN 0
         ELSE CHOOSE k \in Flagged : \A j \in Flagged : k <= j

\* C20: one pass of the deduction loop adjusts exactly the mapping that
\* findVariantMapping resolves for a line with a variant, exactly the
\* mapping flagged isDefault for a line without one, and nothing when no
\* mapping is flagged; the write sets the quantity of that mapping to the
\* clamped difference and changes nothing else of any mapping.
C20_TargetOnly ==
    [][ledger.pc = "deduct" =>
          /\ mapActive' = mapActive
          /\ IF ExpectedTarget = 0 THEN mapQty' = mapQty
             ELSE LET mapping == LedgerList[ExpectedTarget]
                      id == normalizeMappingId(mapping).s
                  IN mapQty' = [mapQty EXCEPT
                                   ![id] = Max(0, Get(mapping, "quantity").n
                                                  - LedgerItem.quantity)]]_vars

\* no mapping is flagged, and the cart had a line without a variant, which
\* wrote nothing, and a line for variant 21, which lowered mapping 11 only
C20_UnflaggedWritesNothing ==
    /\ ledger.pc = "restore"
    /\ ledger.i = 1
    /\ ~ledger.flagged
    /\ \E i \in DOMAIN ledger.cart : ~Truthy(ledger.cart[i].variant)
    /\ \E i \in DOMAIN ledger.cart : ledger.cart[i].variant = Obj([id |-> Str("21")])
    /\ mapQty["11"] < ledger.before["11"]
    /\ mapQty["10"] = ledger.before["10"]

(***************************************************************************)
(* Quantities after concurrent and after product-scoped checkouts          *)
(***************************************************************************)
\* both requests succeeded and every line of both carts is a variant line
\* with a positive quantity against mapping m
BothSucceededOn(m) ==
    \A r \in Reqs :
        /\ resp[r].status = 302
        /\ \A i \in Lines(r) :
              /\ Truthy(cart[r][i].variant)
              /\ cart[r][i].quantity > 0
              /\ LineTarget(r, i) = m

\* the quantity of m before either request wrote: quantities only fall here,
\* so it is the larger of the two reads
InitialQty(m) == Max(ReadQty("r1", m), ReadQty("r2", m))

\* C22: when two checkouts both succeed against the same mapping and its
\* initial quantity covers both ordered quantities, the mapping ends at the
\* initial quantity minus the sum of both ordered quantities.
C22_NoLostDeduction ==
    \A m \in DbMappingIds :
        (/\ BothSucceededOn(m)
         /\ InitialQty(m) >= OrderedAgainst("r1", m) + OrderedAgainst("r2", m))
        => mapQty[m] = InitialQty(m) - OrderedAgainst("r1", m) - OrderedAgainst("r2", m)

\* C23: every line of a cart that passed validation has a positive quantity,
\* and no step of a checkout raises the quantity of a mapping.
C23_NeverIncreases ==
    /\ [](\A r \in Reqs : PassedGate(r) => \A i \in Lines(r) : cart[r][i].quantity > 0)
    /\ [][\A m \in DbMappingIds : mapQty'[m] <= mapQty[m]]_vars

\* C24: after a checkout of one product-scoped line with a positive quantity
\* succeeded while no other request ran and every mapping is active, the
\* default mapping holds the quantity read minus the ordered quantity.
C24_ExactReduction ==
    \A r \in Reqs :
        (/\ resp[r].status = 302
         /\ \A o \in Reqs \ {r} : pc[o] = "received"
         /\ \A m \in DbMappingIds : mapActive[m]
         /\ Len(cart[r]) = 1
         /\ ~Truthy(cart[r][1].variant)
         /\ cart[r][1].quantity > 0)
        => mapQty[DefaultId] = ReadQty(r, DefaultId) - cart[r][1].quantity

(***************************************************************************)
(* Properties of the prices of the persisted order                         *)
(***************************************************************************)
\* the fields of a cart line the order may depend on
LineKey(item) ==
    <<item.id, item.quantity, Truthy(item.variant),
      Get(item.variant, "id"), Get(item.variant, "mappingId")>>

\* two carts that differ at most in the other fields of their lines
SameKeys(c1, c2) ==
    /\ Len(c1) = Len(c2)
    /\ \A i \in DOMAIN c1 : LineKey(c1[i]) = LineKey(c2[i])

RECURSIVE SumLines(_, _)
SumLines(lines, is) ==
    IF is = {} THEN 0
    ELSE LET i == CHOOSE x \in is : TRUE
         IN lines[i].priceAtPurchase.n * lines[i].quantity + SumLines(lines, is \ {i})

====
